---- MODULE Spec2Model ----
(***************************************************************************)
(* A model of KrogerScraper (main.py): the resumable pipeline that filters *)
(* the postal-code table against the output ledger, submits one task per   *)
(* pending postal code to a thread pool, and has every worker download,    *)
(* transform and append one row under a global lock.                        *)
(***************************************************************************)
EXTENDS Integers, Sequences, FiniteSets, TLC

(* ------------------------------ bounds --------------------------------- *)

\* Worker threads of the pool in the model (the program's pool has max_workers = 12).
NumWorkers == 2

\* Rows of the postal-code input table.
MaxRows == 2

\* The largest postal code of the formatter's inputs: all codes of 1 to 4 digits
\* and the first of 5 digits.
MaxCode == 10100

\* Entries of a payload's storeDetails list, and of a fulfillment list.
MaxStores == 2

(* ------------------------- program constants --------------------------- *)

max_retries == 3

output_columns ==
  << "Ecommerce", "CityName", "StateAbbrev", "ZipCode", "Delivery",
     "DeliveryGrocery", "DeliveryRestaurants", "DeliveryAll", "Pickup",
     "PickupGrocery", "PickupRestaurants", "PickupAll" >>

state_list ==
  { "Alabama", "Alaska", "Arizona", "Arkansas", "California", "Colorado", "Connecticut",
    "Delaware", "District of Columbia", "Florida", "Georgia", "Hawaii", "Idaho", "Illinois",
    "Indiana", "Iowa", "Kansas", "Kentucky", "Louisiana", "Maine", "Maryland", "Massachusetts",
    "Michigan", "Minnesota", "Mississippi", "Missouri", "Montana", "Nebraska", "Nevada",
    "New Hampshire", "New Jersey", "New Mexico", "New York", "North Carolina", "North Dakota",
    "Ohio", "Oklahoma", "Oregon", "Pennsylvania", "Rhode Island", "South Carolina",
    "South Dakota", "Tennessee", "Texas", "Utah", "Vermont", "Virginia", "Washington",
    "West Virginia", "Wisconsin", "Wyoming" }

(* --------------------------- text and numbers -------------------------- *)

\* str(code) for a non-negative int: its decimal digits, most significant first.
RECURSIVE Str(_)
Str(n) == IF n < 10 THEN << n >> ELSE Append(Str(n \div 10), n % 10)

\* pandas.read_csv on an all-digits column: the int64 the digits denote
\* (leading zeros carry no value).
RECURSIVE ParseInt(_)
ParseInt(s) ==
  IF s = << >> THEN 0 ELSE ParseInt(SubSeq(s, 1, Len(s) - 1)) * 10 + s[Len(s)]

\* KrogerScraper.postal_code_formatter
postal_code_formatter(code) ==
  LET postal_code == Str(code)
  IN  IF Len(postal_code) = 4 THEN << 0 >> \o Str(code) ELSE postal_code

\* The elements of a sequence.
Range(s) == { s[i] : i \in DOMAIN s }

\* All sequences over S of length exactly n.
SeqsOfLen(S, n) == [ 1..n -> S ]

(* ------------------------------ inputs --------------------------------- *)

\* Records of the postal-code table (input/USZipCodesXLS.csv as read by pandas:
\* ID is an int64 column, so leading zeros are already gone).
PostalRecords ==
  { [ID |-> 36804, NAME |-> "Opelika",  RG_NAME |-> "Alabama",       RG_ABBREV |-> "AL"],
    [ID |-> 2108,  NAME |-> "Boston",   RG_NAME |-> "Massachusetts", RG_ABBREV |-> "MA"],
    [ID |-> 601,   NAME |-> "Adjuntas", RG_NAME |-> "Puerto Rico",   RG_ABBREV |-> "PR"] }

\* The input tables the model starts from: every table of MaxRows records,
\* tables with the same postal code in two rows included.
InputTables == SeqsOfLen(PostalRecords, MaxRows)

(* ------------------------ upstream response bodies --------------------- *)

\* A JSON value found under modalityOptions.DELIVERY / .PICKUP:
\*   t = "true" | "false" | "object"; an object has its key set, and the
\*   list under "fulfillment" when that key is present.
JTrue == [t |-> "true", keys |-> {}, fulfillment |-> << >>]

JFalse == [t |-> "false", keys |-> {}, fulfillment |-> << >>]

JObject(keys, fulfillment) == [t |-> "object", keys |-> keys, fulfillment |-> fulfillment]

\* Python truthiness of such a value (an empty dict is falsy).
Truthy(v) == v.t = "true" \/ (v.t = "object" /\ v.keys # {})

\* Store identifiers and store numbers are strings: sequences of characters.
Id01234 == << "0", "1", "2", "3", "4" >>

Id56789 == << "5", "6", "7", "8", "9" >>

Id99999 == << "9", "9", "9", "9", "9" >>

\* The location ids the upstream names.
StoreIds == { Id01234, Id56789, Id99999 }

\* Sequences over S of length at most n.
SeqsUpTo(S, n) == UNION { [ 1..k -> S ] : k \in 0..n }

\* modalityOptions: a dict whose keys are a subset of DELIVERY, PICKUP, storeDetails.
\* storeDetails is a list of store dicts, each with its own key set.
ModalityOptions(keys, delivery, pickup, stores) ==
  [keys |-> keys, DELIVERY |-> delivery, PICKUP |-> pickup, storeDetails |-> stores]

NoModalityOptions == ModalityOptions({}, JFalse, JFalse, << >>)

Store(id) == [keys |-> {"locationId", "banner"}, locationId |-> id, banner |-> "Kroger"]

\* A storeDetails entry that has no locationId.
StoreWithoutId == [keys |-> {"banner"}, locationId |-> << >>, banner |-> "Kroger"]

\* A parsed response body: a dict whose keys are a subset of data, errors;
\* data is a dict that may hold modalityOptions.
Body(keys, datakeys, mo) ==
  [keys |-> keys, data |-> [keys |-> datakeys, modalityOptions |-> mo]]

\* {}
EmptyBody == Body({}, {}, NoModalityOptions)

\* {'errors': None}: what download_data substitutes for an HTTP 4xx answer.
ErrorsBody == Body({"errors"}, {}, NoModalityOptions)

\* {data:{modalityOptions:{PICKUP:true, storeDetails:[{locationId:"01234", banner:"Kroger"}]}}}
PickupBody ==
  Body({"data"}, {"modalityOptions"},
       ModalityOptions({"PICKUP", "storeDetails"}, JFalse, JTrue, << Store(Id01234) >>))

\* {data:{modalityOptions:{DELIVERY:true}}}: a truthy DELIVERY that is no container.
DeliveryTrueBody ==
  Body({"data"}, {"modalityOptions"},
       ModalityOptions({"DELIVERY"}, JTrue, JFalse, << >>))

\* The bodies a 2xx answer carries in the model.
Bodies == { EmptyBody, PickupBody, DeliveryTrueBody }

\* `if kroger_postal_data:` a dict is truthy iff it has a key.
BodyTruthy(b) == b.keys # {}

\* The values DELIVERY takes: false/null, true, {}, a dict without fulfillment,
\* a dict with a fulfillment list of location ids.
DeliveryValues ==
  { JFalse, JTrue, JObject({}, << >>), JObject({"address"}, << >>) }
    \cup { JObject({"fulfillment"}, ids) : ids \in SeqsUpTo(StoreIds, MaxStores) }

\* The storeDetails lists: entries with any of the ids, or without locationId.
StoreLists == SeqsUpTo({ Store(id) : id \in StoreIds } \cup { StoreWithoutId }, MaxStores)

\* Every modalityOptions dict over these values; a key that is absent has no value.
ModalityPayloads ==
  { m \in [keys : SUBSET {"DELIVERY", "PICKUP", "storeDetails"},
           DELIVERY : DeliveryValues,
           PICKUP : {JFalse, JTrue},
           storeDetails : StoreLists] :
      /\ "DELIVERY" \notin m.keys => m.DELIVERY = JFalse
      /\ "PICKUP" \notin m.keys => m.PICKUP = JFalse
      /\ "storeDetails" \notin m.keys => m.storeDetails = << >> }

\* The truthy bodies process_postal_code hands to transform_data.
PayloadBodies ==
  { Body({"data"}, {"modalityOptions"}, m) : m \in ModalityPayloads }
    \cup { ErrorsBody, Body({"data"}, {}, NoModalityOptions) }

(* ------------------------------ store list ----------------------------- *)

\* input/Kroger-Store-List.csv as read at construction: StoreNumber may hold hyphens.
InitialStoreData ==
  << [StoreNumber |-> << "0", "1", "2", "-", "3", "4" >>, ChainName |-> "Kroger"] >>

\* A store-list row.
StoreRow(number, chain) == [StoreNumber |-> number, ChainName |-> chain]

\* Store lists the scraper may be started with (StoreNumber is a text column):
\* one store; two chains; two stores of one chain; one number in two rows
\* under different chains; no store at all.
StoreTables ==
  { InitialStoreData,
    << StoreRow(<< "0", "1", "2", "-", "3", "4" >>, "Kroger"),
       StoreRow(<< "5", "6", "7", "-", "8", "9" >>, "Ralphs") >>,
    << StoreRow(<< "0", "1", "2", "-", "3", "4" >>, "Kroger"),
       StoreRow(Id56789, "Kroger") >>,
    << StoreRow(Id01234, "Ralphs"),
       StoreRow(<< "0", "1", "2", "-", "3", "4" >>, "Kroger") >>,
    << >> }

\* str.replace('-', '')
StripHyphens(s) == SelectSeq(s, LAMBDA c : c # "-")

\* store_df['StoreNumber'] = store_df['StoreNumber'].str.replace('-', '').astype(str)
NormalizeStoreData(store_df) ==
  [ i \in DOMAIN store_df |-> [store_df[i] EXCEPT !.StoreNumber = StripHyphens(@)] ]

\* BrandsOf with a fallback: an id that matches no store number takes the
\* brands of the whole list.
BrandsOfWithFallback(store_df, store_id) ==
  LET hits == SelectSeq(store_df, LAMBDA r : r.StoreNumber = store_id)
  IN  IF hits = << >> THEN [ i \in DOMAIN store_df |-> store_df[i].ChainName ]
      ELSE [ i \in DOMAIN hits |-> hits[i].ChainName ]

\* store_df.loc[store_df['StoreNumber'] == store_id, 'ChainName']: the matching brands, in table order.
BrandsOf(store_df, store_id) ==
  LET hits == SelectSeq(store_df, LAMBDA r : r.StoreNumber = store_id)
  IN  [ i \in DOMAIN hits |-> hits[i].ChainName ]

\* ResolveBrands without the `brand not in store_brands` test.
RECURSIVE ResolveBrandsNoDedup(_, _, _, _)
ResolveBrandsNoDedup(store_df, store_ids, i, store_brands) ==
  IF i > Len(store_ids) THEN store_brands
  ELSE LET found == SelectSeq(store_df, LAMBDA r : r.StoreNumber = store_ids[i])
       IN  IF found = << >> THEN ResolveBrandsNoDedup(store_df, store_ids, i + 1, store_brands)
           ELSE ResolveBrandsNoDedup(store_df, store_ids, i + 1,
                                     Append(store_brands, found[1].ChainName))

\* ResolveBrands whose IndexError handler leaves the loop (break for pass).
RECURSIVE ResolveBrandsStopAtMissing(_, _, _, _)
ResolveBrandsStopAtMissing(store_df, store_ids, i, store_brands) ==
  IF i > Len(store_ids) THEN store_brands
  ELSE LET found == SelectSeq(store_df, LAMBDA r : r.StoreNumber = store_ids[i])
       IN  IF found = << >> THEN store_brands
           ELSE IF found[1].ChainName \in Range(store_brands)
                THEN ResolveBrandsStopAtMissing(store_df, store_ids, i + 1, store_brands)
                ELSE ResolveBrandsStopAtMissing(store_df, store_ids, i + 1,
                                                Append(store_brands, found[1].ChainName))

\* The for-loop of get_store_brands over store_ids[i..]: .iloc[0] of an empty
\* selection raises IndexError, which is caught and the id skipped.
RECURSIVE ResolveBrands(_, _, _, _)
ResolveBrands(store_df, store_ids, i, store_brands) ==
  IF i > Len(store_ids) THEN store_brands
  ELSE LET found == BrandsOf(store_df, store_ids[i])
       IN  IF found = << >> THEN ResolveBrands(store_df, store_ids, i + 1, store_brands)
           ELSE IF found[1] \in Range(store_brands)
                THEN ResolveBrands(store_df, store_ids, i + 1, store_brands)
                ELSE ResolveBrands(store_df, store_ids, i + 1, Append(store_brands, found[1]))

\* KrogerScraper.get_store_brands: [raised, brands, touched]; touched says the
\* loop body ran, so the shared store table was rewritten with hyphens stripped.
\*   mode Delivery: `'fulfillment' in modality_options['DELIVERY']` raises TypeError
\*                  when DELIVERY is a bool;
\*   mode Pickup:   store['locationId'] raises KeyError for a store without that key.
get_store_brands(store_df, modality_options, mode) ==
  LET delivery == modality_options.DELIVERY
      stores == modality_options.storeDetails
      raised ==
        IF mode = "Delivery" THEN delivery.t # "object"
        ELSE /\ "storeDetails" \in modality_options.keys
             /\ \E i \in DOMAIN stores : "locationId" \notin stores[i].keys
      store_ids ==
        IF mode = "Delivery"
        THEN IF "fulfillment" \in delivery.keys THEN delivery.fulfillment ELSE << >>
        ELSE IF "storeDetails" \in modality_options.keys
             THEN [ i \in DOMAIN stores |-> stores[i].locationId ]
             ELSE << >>
  IN  IF raised THEN [raised |-> TRUE, brands |-> << >>, touched |-> FALSE]
      ELSE [raised |-> FALSE,
            brands |-> ResolveBrands(NormalizeStoreData(store_df), store_ids, 1, << >>),
            touched |-> store_ids # << >>]

\* check_modality_options testing only that the key is there.
check_modality_optionsKeyOnly(modality_options) ==
  [Delivery |-> IF "DELIVERY" \in modality_options.keys THEN "Yes" ELSE "No",
   Pickup   |-> IF "PICKUP" \in modality_options.keys THEN "Yes" ELSE "No"]

\* KrogerScraper.check_modality_options
check_modality_options(modality_options) ==
  [Delivery |-> IF "DELIVERY" \in modality_options.keys /\ Truthy(modality_options.DELIVERY)
                THEN "Yes" ELSE "No",
   Pickup   |-> IF "PICKUP" \in modality_options.keys /\ Truthy(modality_options.PICKUP)
                THEN "Yes" ELSE "No"]

\* output_data as transform_data first builds it.
DefaultOutput(postal_code_details) ==
  [Ecommerce |-> "Kroger",
   CityName |-> postal_code_details.NAME,
   StateAbbrev |-> postal_code_details.RG_ABBREV,
   ZipCode |-> postal_code_details.ID,
   Delivery |-> "No", DeliveryGrocery |-> << >>, DeliveryRestaurants |-> << >>, DeliveryAll |-> << >>,
   Pickup |-> "No", PickupGrocery |-> << >>, PickupRestaurants |-> << >>, PickupAll |-> << >>]

\* transform_data looking up the pickup brands whatever the Pickup flag says.
transform_dataAlwaysLookup(store_df, kroger_postal_data, postal_code_details) ==
  LET output_data == DefaultOutput(postal_code_details)
      hasOptions == /\ "data" \in kroger_postal_data.keys
                    /\ "modalityOptions" \in kroger_postal_data.data.keys
      modality_options == kroger_postal_data.data.modalityOptions
      flags == check_modality_options(modality_options)
      d == IF flags.Delivery = "Yes"
           THEN get_store_brands(store_df, modality_options, "Delivery")
           ELSE [raised |-> FALSE, brands |-> << >>, touched |-> FALSE]
      p == IF ~d.raised
           THEN get_store_brands(store_df, modality_options, "Pickup")
           ELSE [raised |-> FALSE, brands |-> << >>, touched |-> FALSE]
  IN  IF ~hasOptions
      THEN [raised |-> FALSE, row |-> output_data, touched |-> FALSE]
      ELSE [raised |-> d.raised \/ p.raised,
            row |-> [output_data EXCEPT
                       !.Delivery = flags.Delivery,
                       !.DeliveryGrocery = d.brands,
                       !.DeliveryAll = d.brands,
                       !.Pickup = flags.Pickup,
                       !.PickupGrocery = p.brands,
                       !.PickupAll = p.brands],
            touched |-> d.touched \/ p.touched]

\* KrogerScraper.transform_data: [raised, row, touched].
transform_data(store_df, kroger_postal_data, postal_code_details) ==
  LET output_data == DefaultOutput(postal_code_details)
      hasOptions == /\ "data" \in kroger_postal_data.keys
                    /\ "modalityOptions" \in kroger_postal_data.data.keys
      modality_options == kroger_postal_data.data.modalityOptions
      flags == check_modality_options(modality_options)
      d == IF flags.Delivery = "Yes"
           THEN get_store_brands(store_df, modality_options, "Delivery")
           ELSE [raised |-> FALSE, brands |-> << >>, touched |-> FALSE]
      \* the pickup lookup runs only when the delivery lookup did not raise
      p == IF flags.Pickup = "Yes" /\ ~d.raised
           THEN get_store_brands(store_df, modality_options, "Pickup")
           ELSE [raised |-> FALSE, brands |-> << >>, touched |-> FALSE]
  IN  IF ~hasOptions
      THEN [raised |-> FALSE, row |-> output_data, touched |-> FALSE]
      ELSE [raised |-> d.raised \/ p.raised,
            row |-> [output_data EXCEPT
                       !.Delivery = flags.Delivery,
                       !.DeliveryGrocery = d.brands,
                       !.DeliveryAll = d.brands,
                       !.Pickup = flags.Pickup,
                       !.PickupGrocery = p.brands,
                       !.PickupAll = p.brands],
            touched |-> d.touched \/ p.touched]

(* ------------------------------ the ledger ----------------------------- *)

\* The row with the request's form of the postal code in its ZipCode cell.
CsvRowPadded(data) == [data EXCEPT !.ZipCode = postal_code_formatter(@)]

\* csv.writer.writerow(data): every field is written as its str(); the int
\* ZipCode becomes its decimal digits.
CsvRow(data) == [data EXCEPT !.ZipCode = Str(@)]

\* ZipCodeColumn of a file without its header line: read_csv takes the first
\* data row for the header.
ZipCodeColumnSkipFirst(rows) ==
  [ i \in 1..(Len(rows) - 1) |-> ParseInt(rows[i + 1].ZipCode) ]

\* pd.read_csv(output_file)['ZipCode'].to_list(): the ZipCode column parsed back to ints.
ZipCodeColumn(rows) == [ i \in DOMAIN rows |-> ParseInt(rows[i].ZipCode) ]

\* FilterMask without the ledger test: only the region filter is applied.
FilterMaskNoDedup(table, existing_postal_codes, state_filter) ==
  LET filter == IF state_filter = {} THEN state_list ELSE state_filter
  IN  [ i \in DOMAIN table |-> table[i].RG_NAME \in filter ]

\* FilterMask with `|` between the two tests, as old_main.filter_csv_data has it.
FilterMaskOr(table, existing_postal_codes, state_filter) ==
  LET filter == IF state_filter = {} THEN state_list ELSE state_filter
  IN  [ i \in DOMAIN table |->
          \/ table[i].ID \notin Range(existing_postal_codes)
          \/ table[i].RG_NAME \in filter ]

\* FilterMask where a missing state_filter means no region test at all.
FilterMaskAllRegions(table, existing_postal_codes, state_filter) ==
  [ i \in DOMAIN table |->
      /\ table[i].ID \notin Range(existing_postal_codes)
      /\ (state_filter = {} \/ table[i].RG_NAME \in state_filter) ]

\* filter_postal_codes: the boolean mask over the rows of the postal-code table,
\*   ~ID.isin(existing_postal_codes) & RG_NAME.isin(state_filter),
\* with state_list standing in for a missing or empty state_filter.
FilterMask(table, existing_postal_codes, state_filter) ==
  LET filter == IF state_filter = {} THEN state_list ELSE state_filter
  IN  [ i \in DOMAIN table |->
          /\ table[i].ID \notin Range(existing_postal_codes)
          /\ table[i].RG_NAME \in filter ]

\* The positions of the rows a mask keeps, in table order.
RECURSIVE Kept(_, _)
Kept(mask, i) ==
  IF i > Len(mask) THEN << >>
  ELSE IF mask[i] THEN << i >> \o Kept(mask, i + 1) ELSE Kept(mask, i + 1)

\* KrogerScraper.filter_postal_codes: the rows (by position) that become tasks.
filter_postal_codes(table, output_rows, state_filter) ==
  Kept(FilterMask(table, ZipCodeColumn(output_rows), state_filter), 1)

(* --------------------------- download_data ----------------------------- *)

\* What one requests.post / raise_for_status / response.json() can end in.
Responses ==
  { [class |-> "ok", body |-> b] : b \in Bodies }
    \cup { [class |-> c, body |-> EmptyBody] : c \in {"4xx", "5xx", "neterr", "malformed"} }

\* kroger_postal_data: None, or a parsed body.
None == [isNone |-> TRUE, body |-> EmptyBody]

Some(b) == [isNone |-> FALSE, body |-> b]

\* `if kroger_postal_data:`
PyTruthy(d) == ~d.isNone /\ BodyTruthy(d.body)

\* HandleResponse without the 'Client Error' branch: every HTTPError is retried.
HandleResponseNoClientBranch(resp, n) ==
  CASE resp.class = "ok"        -> [retry |-> FALSE, data |-> Some(resp.body)]
    [] resp.class \in {"4xx", "5xx"} ->
                                   IF n < max_retries
                                   THEN [retry |-> TRUE, data |-> None]
                                   ELSE [retry |-> FALSE, data |-> None]
    [] resp.class = "neterr"    -> [retry |-> FALSE, data |-> None]
    [] resp.class = "malformed" -> [retry |-> FALSE, data |-> None]

\* HandleResponse with `retries <= max_retries`: one retry too many.
HandleResponseOffByOne(resp, n) ==
  CASE resp.class = "ok"        -> [retry |-> FALSE, data |-> Some(resp.body)]
    [] resp.class = "4xx"       -> [retry |-> FALSE, data |-> Some(ErrorsBody)]
    [] resp.class = "5xx"       -> IF n <= max_retries
                                   THEN [retry |-> TRUE, data |-> None]
                                   ELSE [retry |-> FALSE, data |-> None]
    [] resp.class = "neterr"    -> [retry |-> FALSE, data |-> None]
    [] resp.class = "malformed" -> [retry |-> FALSE, data |-> None]

\* HandleResponse retrying a body that does not parse, as it retries a 5xx.
HandleResponseRetryMalformed(resp, n) ==
  CASE resp.class = "ok"        -> [retry |-> FALSE, data |-> Some(resp.body)]
    [] resp.class = "4xx"       -> [retry |-> FALSE, data |-> Some(ErrorsBody)]
    [] resp.class \in {"5xx", "malformed"} ->
                                   IF n < max_retries
                                   THEN [retry |-> TRUE, data |-> None]
                                   ELSE [retry |-> FALSE, data |-> None]
    [] resp.class = "neterr"    -> [retry |-> FALSE, data |-> None]

\* The handlers of download_data for one response, at recursion depth `retries`:
\*   retry = TRUE  : sleep the retry delay, then download_data(postal_code, retries + 1)
\*   retry = FALSE : return data
\* requests.exceptions.JSONDecodeError is a RequestException, so a body that does
\* not parse is caught by the RequestException handler; either handler only logs.
HandleResponse(resp, n) ==
  CASE resp.class = "ok"        -> [retry |-> FALSE, data |-> Some(resp.body)]
    [] resp.class = "4xx"       -> [retry |-> FALSE, data |-> Some(ErrorsBody)]
    [] resp.class = "5xx"       -> IF n < max_retries
                                   THEN [retry |-> TRUE, data |-> None]
                                   ELSE [retry |-> FALSE, data |-> None]
    [] resp.class = "neterr"    -> [retry |-> FALSE, data |-> None]
    [] resp.class = "malformed" -> [retry |-> FALSE, data |-> None]

(* ------------------------------- state --------------------------------- *)

Workers == 1..NumWorkers

VARIABLES
  postal_code_data,   \* self.postal_code_data: the input table
  store_data,         \* self.store_data: the store list, shared by the workers
  ledger,             \* the data rows of the output file (the header is not a row)
  mainpc,             \* the main thread: init | submit | join | returned | interrupted
  tasks,              \* filtered_postal_code_list, as positions in postal_code_data
  submitted,          \* how many tasks run() has submitted
  queue,              \* the executor's work queue: submitted tasks no worker has taken
  lock,               \* the module-level lock: 0 when free, else the worker holding it
  wpc,                \* each worker's position
  wtask,              \* the task (index into tasks) each worker is processing, 0 when idle
  retries,            \* download_data's retries argument
  data,               \* process_postal_code's kroger_postal_data
  rowbuf,             \* transformed_data, the row handed to write_to_file
  startLen,           \* history: the ledger's length when the current run began
  requested,          \* history: the postal codes requested from the upstream in this run
  nreq,               \* history: requests made so far by the worker's download_data
  tlog,               \* history: per task of the latest run, its status and how it ended
  prev,               \* history: whether the previous run returned, and the ledger's length at its start
  output_dir,         \* the directory 'output' exists
  file_exists,        \* the output file exists (ledger holds its data rows when it does)
  headers,            \* self.headers['User-Agent'], shared by the workers ("none": key not set)
  ua,                 \* history: the user agent each worker's download_data last drew
  sent                \* history: the User-Agent each worker's last POST carried

vars == << postal_code_data, store_data, ledger, mainpc, tasks, submitted, queue, lock,
           wpc, wtask, retries, data, rowbuf, startLen, requested, nreq, tlog, prev,
           output_dir, file_exists, headers, ua, sent >>

\* The file system as __init__ looks at it.
fsVars == << output_dir, file_exists >>

\* The request headers and what is known of their use.
fetchVars == << headers, ua, sent >>

workerVars == << wpc, wtask, retries, data, rowbuf, nreq >>

NoRow == DefaultOutput([ID |-> 0, NAME |-> "", RG_NAME |-> "", RG_ABBREV |-> ""])

NoLog == [status |-> "pending", outcome |-> "none", last |-> "none", at |-> 0]

\* postal_code_details of task t.
Details(t) == postal_code_data[tasks[t]]

\* What the first process start can find: no 'output' directory; the directory
\* without the output file; the directory with the file (header line only).
\* __main__ puts the output file in 'output', so no directory means no file.
FilesAtFirstStart ==
  /\ output_dir \in BOOLEAN
  /\ file_exists \in BOOLEAN
  /\ file_exists => output_dir

\* self.headers as __init__ builds it (no User-Agent key), nothing drawn or sent.
NoFetch ==
  /\ headers = "none"
  /\ ua = [w \in Workers |-> "none"]
  /\ sent = [w \in Workers |-> "none"]

Init ==
  /\ postal_code_data \in InputTables
  /\ store_data = InitialStoreData
  /\ ledger = << >>
  /\ mainpc = "init"
  /\ tasks = << >>
  /\ submitted = 0
  /\ queue = << >>
  /\ lock = 0
  /\ wpc = [w \in Workers |-> "idle"]
  /\ wtask = [w \in Workers |-> 0]
  /\ retries = [w \in Workers |-> 0]
  /\ data = [w \in Workers |-> None]
  /\ rowbuf = [w \in Workers |-> NoRow]
  /\ startLen = 0
  /\ requested = {}
  /\ nreq = [w \in Workers |-> 0]
  /\ tlog = << >>
  /\ prev = [started |-> FALSE, returned |-> FALSE, startLen |-> 0]
  /\ FilesAtFirstStart
  /\ NoFetch

(* ---------------------------- the main thread -------------------------- *)

\* A process start. __init__ reads the two input tables and makes the default
\* directories: when 'output' does not exist it is made and the output file is
\* written anew, header only (mode 'w'); an existing 'output' is left as it is.
\* run() then computes filtered_postal_code_list from the output file, and
\* pd.read_csv raises FileNotFoundError when the file is not there: the process ends.
StartRun ==
  /\ mainpc \in {"init", "returned", "interrupted"}
  /\ LET created == ~output_dir
         rows == IF created THEN << >> ELSE ledger
         list == filter_postal_codes(postal_code_data, rows, {})
     IN  /\ output_dir' = TRUE
         /\ file_exists' = (created \/ file_exists)
         /\ ledger' = rows
         /\ startLen' = Len(rows)
         /\ IF created \/ file_exists
            THEN /\ tasks' = list
                 /\ tlog' = [t \in DOMAIN list |-> NoLog]
                 /\ mainpc' = IF list = << >> THEN "join" ELSE "submit"
            ELSE /\ tasks' = << >>
                 /\ tlog' = << >>
                 /\ mainpc' = "crashed"
  /\ store_data' = InitialStoreData
  /\ submitted' = 0
  /\ queue' = << >>
  /\ requested' = {}
  /\ UNCHANGED << postal_code_data, lock, workerVars, prev, fetchVars >>

\* One turn of run()'s loop: executor.submit(...) and the worker delay; after the
\* last turn the with-block is left and the executor's shutdown waits.
Submit ==
  /\ mainpc = "submit"
  /\ submitted < Len(tasks)
  /\ submitted' = submitted + 1
  /\ queue' = Append(queue, submitted + 1)
  /\ tlog' = [tlog EXCEPT ![submitted + 1].status = "queued"]
  /\ mainpc' = IF submitted + 1 = Len(tasks) THEN "join" ELSE "submit"
  /\ UNCHANGED << postal_code_data, store_data, ledger, tasks, lock, workerVars,
                  startLen, requested, prev >>
  /\ UNCHANGED << fsVars, fetchVars >>

\* executor.shutdown(wait=True) returns once every submitted task has finished.
Return ==
  /\ mainpc = "join"
  /\ queue = << >>
  /\ \A w \in Workers : wpc[w] = "idle"
  /\ mainpc' = "returned"
  /\ prev' = [started |-> TRUE, returned |-> TRUE, startLen |-> startLen]
  /\ UNCHANGED << postal_code_data, store_data, ledger, tasks, submitted, queue, lock,
                  workerVars, startLen, requested, tlog >>
  /\ UNCHANGED << fsVars, fetchVars >>

\* The process is killed while run() is executing: every thread stops where it
\* is, unflushed file buffers are lost, the ledger file stays as it is on disk.
Interrupt ==
  /\ mainpc \in {"submit", "join"}
  /\ mainpc' = "interrupted"
  /\ queue' = << >>
  /\ lock' = 0
  /\ wpc' = [w \in Workers |-> "idle"]
  /\ wtask' = [w \in Workers |-> 0]
  /\ retries' = [w \in Workers |-> 0]
  /\ data' = [w \in Workers |-> None]
  /\ rowbuf' = [w \in Workers |-> NoRow]
  /\ nreq' = [w \in Workers |-> 0]
  /\ prev' = [started |-> TRUE, returned |-> FALSE, startLen |-> startLen]
  /\ UNCHANGED << postal_code_data, store_data, ledger, tasks, submitted,
                  startLen, requested, tlog >>
  /\ UNCHANGED << fsVars, fetchVars >>

(* ------------------------------ the workers ---------------------------- *)

\* The worker's task ends (process_postal_code returns or raises; the executor
\* keeps a raised exception in the future and the thread goes on).
Finish(w, outcome, last, at) ==
  /\ tlog' = [tlog EXCEPT ![wtask[w]] =
                [status |-> "finished", outcome |-> outcome, last |-> last, at |-> at]]
  /\ wpc' = [wpc EXCEPT ![w] = "idle"]
  /\ wtask' = [wtask EXCEPT ![w] = 0]
  /\ retries' = [retries EXCEPT ![w] = 0]
  /\ nreq' = [nreq EXCEPT ![w] = 0]
  /\ data' = [data EXCEPT ![w] = None]
  /\ rowbuf' = [rowbuf EXCEPT ![w] = NoRow]

\* An idle pool thread takes the oldest queued work item and enters
\* process_postal_code, up to the first call of download_data. The pool's
\* threads are interchangeable: of the idle ones, the lowest-numbered takes it.
TakeTask(w) ==
  /\ mainpc \in {"submit", "join"}
  /\ wpc[w] = "idle"
  /\ \A v \in Workers : wpc[v] = "idle" => w <= v
  /\ queue # << >>
  /\ wtask' = [wtask EXCEPT ![w] = Head(queue)]
  /\ queue' = Tail(queue)
  /\ wpc' = [wpc EXCEPT ![w] = "request"]
  /\ tlog' = [tlog EXCEPT ![Head(queue)].status = "running"]
  /\ UNCHANGED << postal_code_data, store_data, ledger, mainpc, tasks, submitted, lock,
                  retries, data, rowbuf, startLen, requested, nreq, prev >>
  /\ UNCHANGED << fsVars, fetchVars >>

\* Why a task whose download returned nothing usable was dropped.
DropReason(resp) ==
  CASE resp.class = "5xx"       -> "exhausted"
    [] resp.class = "neterr"    -> "neterr"
    [] resp.class = "malformed" -> "malformed"
    [] OTHER                    -> "falsy"

\* One invocation of download_data: the POST, its answer, the handler; and, when
\* it returns to process_postal_code, the `if kroger_postal_data:` test.
Request(w) ==
  /\ wpc[w] = "request"
  /\ \E resp \in Responses :
       LET h == HandleResponse(resp, retries[w])
       IN  /\ requested' = requested \cup { postal_code_formatter(Details(wtask[w]).ID) }
           /\ IF h.retry
              THEN /\ wpc' = [wpc EXCEPT ![w] = "backoff"]
                   /\ nreq' = [nreq EXCEPT ![w] = @ + 1]
                   /\ tlog' = [tlog EXCEPT ![wtask[w]].last = resp.class]
                   /\ UNCHANGED << wtask, retries, data, rowbuf >>
              ELSE IF PyTruthy(h.data)
              THEN /\ wpc' = [wpc EXCEPT ![w] = "transform"]
                   /\ data' = [data EXCEPT ![w] = h.data]
                   /\ retries' = [retries EXCEPT ![w] = 0]
                   /\ nreq' = [nreq EXCEPT ![w] = 0]
                   /\ tlog' = [tlog EXCEPT ![wtask[w]].last = resp.class]
                   /\ UNCHANGED << wtask, rowbuf >>
              ELSE Finish(w, DropReason(resp), resp.class, 0)
  /\ UNCHANGED << postal_code_data, store_data, ledger, mainpc, tasks, submitted, queue,
                  lock, startLen, prev >>
  /\ UNCHANGED << fsVars, fetchVars >>

\* time.sleep(retry_delay) is over: download_data(postal_code, retries + 1).
Backoff(w) ==
  /\ wpc[w] = "backoff"
  /\ wpc' = [wpc EXCEPT ![w] = "request"]
  /\ retries' = [retries EXCEPT ![w] = @ + 1]
  /\ UNCHANGED << postal_code_data, store_data, ledger, mainpc, tasks, submitted, queue,
                  lock, wtask, data, rowbuf, startLen, requested, nreq, tlog, prev >>
  /\ UNCHANGED << fsVars, fetchVars >>

\* transform_data(kroger_postal_data, postal_code_details).
Transform(w) ==
  /\ wpc[w] = "transform"
  /\ LET r == transform_data(store_data, data[w].body, Details(wtask[w]))
     IN  /\ store_data' = IF r.touched THEN NormalizeStoreData(store_data) ELSE store_data
         /\ IF r.raised
            THEN Finish(w, "raised", tlog[wtask[w]].last, 0)
            ELSE /\ rowbuf' = [rowbuf EXCEPT ![w] = r.row]
                 /\ wpc' = [wpc EXCEPT ![w] = "acquire"]
                 /\ UNCHANGED << wtask, retries, data, nreq, tlog >>
  /\ UNCHANGED << postal_code_data, ledger, mainpc, tasks, submitted, queue, lock,
                  startLen, requested, prev >>
  /\ UNCHANGED << fsVars, fetchVars >>

\* write_to_file without the lock: the block is entered whoever is inside.
CanAcquireAlways(l) == TRUE

\* `with lock:` can be entered.
CanAcquire(l) == l = 0

\* The cooldown slept inside the with-block: the lock is still the worker's
\* when the write is over.
HeldThroughCooldown(w) == w

\* The lock when the with-block is left at its end.
Released(w) == 0

\* lock.acquire() ... lock.release() without try/finally: an exception skips the release.
StillHeldOnRaise(w) == w

\* The lock when the with-block is left by an exception.
ReleasedOnRaise(w) == 0

\* write_to_file: `with lock:` is entered.
Acquire(w) ==
  /\ wpc[w] = "acquire"
  /\ CanAcquire(lock)
  /\ lock' = w
  /\ wpc' = [wpc EXCEPT ![w] = "open"]
  /\ UNCHANGED << postal_code_data, store_data, ledger, mainpc, tasks, submitted, queue,
                  wtask, retries, data, rowbuf, startLen, requested, nreq, tlog, prev >>
  /\ UNCHANGED << fsVars, fetchVars >>

\* write_to_file: open(output_file, 'a', newline=''), which may raise OSError.
Open(w) ==
  /\ wpc[w] = "open"
  /\ \/ /\ wpc' = [wpc EXCEPT ![w] = "writerow"]
        /\ UNCHANGED << lock, wtask, retries, data, rowbuf, nreq, tlog >>
     \/ /\ lock' = ReleasedOnRaise(w)
        /\ Finish(w, "raised", tlog[wtask[w]].last, 0)
  /\ UNCHANGED << postal_code_data, store_data, ledger, mainpc, tasks, submitted, queue,
                  startLen, requested, prev >>
  /\ UNCHANGED << fsVars, fetchVars >>

\* write_to_file: writer.writerow(data) and the end of both with-blocks: the row
\* reaches the file when it is closed, then the lock is released. A failed write
\* raises; process_postal_code's cooldown follows a write that succeeded.
WriteRow(w) ==
  /\ wpc[w] = "writerow"
  /\ \/ /\ ledger' = Append(ledger, CsvRow(rowbuf[w]))
        /\ lock' = Released(w)
        /\ wpc' = [wpc EXCEPT ![w] = "cooldown"]
        /\ tlog' = [tlog EXCEPT ![wtask[w]].outcome = "written",
                                ![wtask[w]].at = Len(ledger) + 1]
        /\ UNCHANGED << wtask, retries, data, rowbuf, nreq >>
     \/ /\ Finish(w, "raised", tlog[wtask[w]].last, 0)
        /\ lock' = ReleasedOnRaise(w)
        /\ UNCHANGED ledger
  /\ UNCHANGED << postal_code_data, store_data, mainpc, tasks, submitted, queue,
                  startLen, requested, prev >>
  /\ UNCHANGED << fsVars, fetchVars >>

\* process_postal_code: time.sleep(delay) is over and the task returns.
Cooldown(w) ==
  /\ wpc[w] = "cooldown"
  /\ Finish(w, "written", tlog[wtask[w]].last, tlog[wtask[w]].at)
  /\ UNCHANGED << postal_code_data, store_data, ledger, mainpc, tasks, submitted, queue,
                  lock, startLen, requested, prev >>
  /\ UNCHANGED << fsVars, fetchVars >>

Worker(w) ==
  \/ TakeTask(w)
  \/ Request(w)
  \/ Backoff(w)
  \/ Transform(w)
  \/ Acquire(w)
  \/ Open(w)
  \/ WriteRow(w)
  \/ Cooldown(w)

Next ==
  \/ StartRun
  \/ Submit
  \/ Return
  \/ Interrupt
  \/ \E w \in Workers : Worker(w)

Spec == Init /\ [][Next]_vars

\* One process run that nothing kills: the first start, then run() to its end.
FirstRun == mainpc = "init" /\ StartRun

OneRunNext ==
  \/ FirstRun
  \/ Submit
  \/ Return
  \/ \E w \in Workers : Worker(w)

\* Scheduling is fair: while some thread can take a step (a request returns or
\* times out, a sleep ends, the lock is free for a waiting worker, the main
\* thread can submit or return), a step is eventually taken.
FairSpec ==
  /\ Init
  /\ [][OneRunNext]_vars
  /\ WF_vars(OneRunNext)

(* ----------------------- one task, any input --------------------------- *)

\* run() has submitted the one task of a one-row table and worker 1 has taken
\* it: the worker is at position pc of process_postal_code with
\* kroger_postal_data = d, the store list being store_df.
MidTask(details, store_df, pc, d) ==
  /\ postal_code_data = << details >>
  /\ store_data = store_df
  /\ ledger = << >>
  /\ mainpc = "join"
  /\ tasks = << 1 >>
  /\ submitted = 1
  /\ queue = << >>
  /\ lock = 0
  /\ wpc = [w \in Workers |-> IF w = 1 THEN pc ELSE "idle"]
  /\ wtask = [w \in Workers |-> IF w = 1 THEN 1 ELSE 0]
  /\ retries = [w \in Workers |-> 0]
  /\ data = [w \in Workers |-> IF w = 1 THEN d ELSE None]
  /\ rowbuf = [w \in Workers |-> NoRow]
  /\ startLen = 0
  /\ requested = {}
  /\ nreq = [w \in Workers |-> 0]
  /\ tlog = << [NoLog EXCEPT !.status = "running"] >>
  /\ prev = [started |-> FALSE, returned |-> FALSE, startLen |-> 0]
  /\ output_dir = TRUE
  /\ file_exists = TRUE
  /\ NoFetch

\* The postal codes the formatter is given: the ID column is an int64.
Codes == 1..MaxCode

\* A worker enters process_postal_code with a record of any postal code.
FormatInit ==
  \E code \in Codes :
    MidTask([ID |-> code, NAME |-> "Holtsville", RG_NAME |-> "New York", RG_ABBREV |-> "NY"],
            InitialStoreData, "request", None)

\* process_postal_code formats the code and download_data makes its request.
FormatNext == \E w \in Workers : Request(w)

FormatSpec == FormatInit /\ [][FormatNext]_vars

\* A worker holds any truthy payload, with any store list, and is about to
\* call transform_data.
PayloadInit ==
  \E b \in PayloadBodies, store_df \in StoreTables :
    MidTask([ID |-> 36804, NAME |-> "Opelika", RG_NAME |-> "Alabama", RG_ABBREV |-> "AL"],
            store_df, "transform", Some(b))

\* The rest of process_postal_code: transform_data and write_to_file.
PayloadNext == \E w \in Workers : Transform(w) \/ Acquire(w) \/ Open(w) \/ WriteRow(w)

PayloadSpec == PayloadInit /\ [][PayloadNext]_vars

(* ------------------- download_data, statement by statement ------------- *)

\* user_agent.random: an agent string of one of the three browsers.
UserAgents == {"edge", "chrome", "safari"}

\* Every pool thread is inside process_postal_code, about to call download_data.
FetchInit ==
  /\ postal_code_data =
       [w \in Workers |-> [ID |-> 36804, NAME |-> "Opelika", RG_NAME |-> "Alabama", RG_ABBREV |-> "AL"]]
  /\ store_data = InitialStoreData
  /\ ledger = << >>
  /\ mainpc = "join"
  /\ tasks = [w \in Workers |-> w]
  /\ submitted = NumWorkers
  /\ queue = << >>
  /\ lock = 0
  /\ wpc = [w \in Workers |-> "request"]
  /\ wtask = [w \in Workers |-> w]
  /\ retries = [w \in Workers |-> 0]
  /\ data = [w \in Workers |-> None]
  /\ rowbuf = [w \in Workers |-> NoRow]
  /\ startLen = 0
  /\ requested = {}
  /\ nreq = [w \in Workers |-> 0]
  /\ tlog = [w \in Workers |-> [NoLog EXCEPT !.status = "running"]]
  /\ prev = [started |-> FALSE, returned |-> FALSE, startLen |-> 0]
  /\ output_dir = TRUE
  /\ file_exists = TRUE
  /\ NoFetch

\* self.headers['User-Agent'] = user_agent.random: the worker draws an agent
\* and stores it in the headers dict of the scraper, which all workers share.
SetUserAgent(w) ==
  /\ wpc[w] = "request"
  /\ \E agent \in UserAgents :
       /\ headers' = agent
       /\ ua' = [ua EXCEPT ![w] = agent]
  /\ wpc' = [wpc EXCEPT ![w] = "post"]
  /\ UNCHANGED << postal_code_data, store_data, ledger, mainpc, tasks, submitted, queue,
                  lock, wtask, retries, data, rowbuf, startLen, requested, nreq, tlog,
                  prev, fsVars, sent >>

\* requests.post(..., headers=self.headers, ...): the request carries the
\* dict's User-Agent as it is now; the call is over and the next one (a retry,
\* or the worker's next task) can begin.
Post(w) ==
  /\ wpc[w] = "post"
  /\ sent' = [sent EXCEPT ![w] = headers]
  /\ wpc' = [wpc EXCEPT ![w] = "request"]
  /\ UNCHANGED << postal_code_data, store_data, ledger, mainpc, tasks, submitted, queue,
                  lock, wtask, retries, data, rowbuf, startLen, requested, nreq, tlog,
                  prev, fsVars, headers, ua >>

FetchNext == \E w \in Workers : SetUserAgent(w) \/ Post(w)

FetchSpec == FetchInit /\ [][FetchNext]_vars

(* ------------------------------ properties ----------------------------- *)

\* run() is executing.
Running == mainpc \in {"submit", "join"}

\* The ledger's rows as they were when the current run began, and those it appended.
LedgerAtStart == SubSeq(ledger, 1, startLen)

AppendedThisRun == SubSeq(ledger, startLen + 1, Len(ledger))

\* The ID a ledger row's ZipCode cell denotes.
ZipOf(row) == ParseInt(row.ZipCode)

\* Every postal code occurs in one row of the input table only.
UniqueInput ==
  \A i, j \in DOMAIN postal_code_data :
    postal_code_data[i].ID = postal_code_data[j].ID => i = j

\* The worker processing task t, if any.
WorkersOn(t) == { w \in Workers : wtask[w] = t }

\* The IDs of the postal codes for which a task of the latest run appended a row.
WrittenIDs == { Details(t).ID : t \in { u \in DOMAIN tlog : tlog[u].outcome = "written" } }

\* Task t of the latest run ended, or was cut off, with no row for its postal code.
Unwritten(t) == Details(t).ID \notin WrittenIDs

\* The step is a process start after an earlier run.
Restart == mainpc \in {"returned", "interrupted"} /\ mainpc' \in {"submit", "join"}

\* C1. Resume safety: a postal code whose ID is in the ledger's ZipCode column
\* when a run starts is not requested from the upstream during that run and
\* gets no further row appended during it.
C1_ResumeSafety ==
  \A i \in 1..startLen :
    /\ postal_code_formatter(ZipOf(ledger[i])) \notin requested
    /\ \A j \in (startLen + 1)..Len(ledger) : ZipOf(ledger[j]) # ZipOf(ledger[i])

\* A later run that found rows in the ledger, made a request and appended a row.
C1_Witness ==
  /\ Running
  /\ prev.started
  /\ startLen > 0
  /\ requested # {}
  /\ Len(ledger) > startLen

\* C2. Deduplicated ledger: when every postal code occurs in one input row only,
\* the ledger holds at most one row per postal code, after any sequence of
\* completed or interrupted runs.
C2_DeduplicatedLedger ==
  UniqueInput =>
    \A i, j \in DOMAIN ledger : ZipOf(ledger[i]) = ZipOf(ledger[j]) => i = j

\* A run that follows an interrupted one has added a row to those already there.
C2_Witness ==
  /\ UniqueInput
  /\ Running
  /\ prev.started /\ ~prev.returned
  /\ startLen > 0
  /\ Len(ledger) > startLen

\* The case C2 excludes: a postal code in two input rows has two rows in the ledger.
C2_DuplicateRows ==
  \E i, j \in DOMAIN ledger : i # j /\ ZipOf(ledger[i]) = ZipOf(ledger[j])

\* C3 as stated. A run that follows a completed run from an empty ledger
\* schedules no task.
C3_SecondRunSchedulesNothing ==
  [][ (Restart /\ mainpc = "returned" /\ startLen = 0) => tasks' = << >> ]_vars

\* C3 as amended. A run that follows a completed run from an empty ledger
\* schedules exactly the first run's tasks whose postal code got no row in it,
\* in input order; none when every task of the first run appended its row.
C3_SecondRunSchedulesUnwritten ==
  [][ (Restart /\ mainpc = "returned" /\ startLen = 0) =>
        /\ tasks' = SelectSeq(tasks, LAMBDA i : postal_code_data[i].ID \notin WrittenIDs)
        /\ ((\A t \in DOMAIN tlog : tlog[t].outcome = "written") => tasks' = << >>) ]_vars

\* After a completed first run from an empty ledger that wrote a row, the second
\* run has a task.
C3_Witness ==
  /\ Running /\ prev.started /\ prev.returned /\ prev.startLen = 0
  /\ startLen > 0
  /\ tasks # << >>

\* A worker is inside write_to_file's with-lock block.
InSection(w) == wpc[w] \in {"open", "writerow"}

\* C4. Write mutual exclusion: at most one worker is inside the open/write/close
\* section; the lock is held exactly while a worker is inside, so it is free
\* again after every write, failed or not; every row a task appended stands
\* whole in the ledger at its own position.
C4_WriteMutualExclusion ==
  /\ Cardinality({ w \in Workers : InSection(w) }) <= 1
  /\ \A w \in Workers : InSection(w) <=> lock = w
  /\ lock \in Workers \cup {0}
  /\ \A t \in DOMAIN tlog :
       tlog[t].outcome = "written" =>
         /\ tlog[t].at \in (startLen + 1)..Len(ledger)
         /\ ZipOf(ledger[tlog[t].at]) = Details(t).ID
         /\ \A u \in DOMAIN tlog :
              (tlog[u].outcome = "written" /\ tlog[u].at = tlog[t].at) => u = t

\* One worker is inside the section holding the lock while another waits for it.
C4_Witness ==
  \E w, v \in Workers :
    /\ wpc[w] = "writerow" /\ lock = w
    /\ wpc[v] = "acquire"

\* The rows this run appended for postal code id.
AppendedFor(id) == { j \in (startLen + 1)..Len(ledger) : ZipOf(ledger[j]) = id }

\* C5. Terminal client error: a task whose request was answered HTTP 4xx makes
\* no further request (its worker is past download_data), is never dropped, and
\* the row it hands to the sink and appends is the default one: Delivery "No",
\* Pickup "No", all six brand lists empty; it appends exactly one row unless the
\* write itself raises.
C5_ClientErrorIsTerminal ==
  \A t \in DOMAIN tlog :
    tlog[t].last = "4xx" =>
      /\ \A w \in WorkersOn(t) :
           /\ wpc[w] \notin {"request", "backoff"}
           /\ wpc[w] = "transform" => data[w] = Some(ErrorsBody)
           /\ wpc[w] \in {"acquire", "open", "writerow"} => rowbuf[w] = DefaultOutput(Details(t))
      /\ tlog[t].outcome \in {"none", "written", "raised"}
      /\ tlog[t].outcome = "written" =>
           /\ ledger[tlog[t].at] = CsvRow(DefaultOutput(Details(t)))
           /\ (UniqueInput => AppendedFor(Details(t).ID) = { tlog[t].at })
      /\ tlog[t].outcome # "written" => tlog[t].at = 0

\* A task answered 4xx has finished with its row in the ledger.
C5_Witness ==
  \E t \in DOMAIN tlog :
    /\ tlog[t].last = "4xx"
    /\ tlog[t].status = "finished"
    /\ tlog[t].outcome = "written"

\* C6 as stated. download_data makes at most 3 attempts: once three requests
\* have been made, no further request is about to be made.
C6_AtMostThreeAttempts ==
  \A w \in Workers : wpc[w] = "request" => nreq[w] < 3

\* C6 as amended. download_data makes at most max_retries + 1 = 4 attempts, every
\* attempt after the first preceded by a backoff sleep; after the fourth 5xx
\* there is no further backoff: the task is dropped without a row, and the next
\* run schedules it again.
C6_RetryBudget ==
  /\ [](\A w \in Workers :
          /\ wpc[w] = "request" => (nreq[w] = retries[w] /\ nreq[w] <= max_retries)
          /\ wpc[w] = "backoff" => (nreq[w] = retries[w] + 1 /\ nreq[w] <= max_retries))
  /\ [](\A t \in DOMAIN tlog :
          tlog[t].outcome = "exhausted" =>
            /\ tlog[t].status = "finished" /\ tlog[t].last = "5xx" /\ tlog[t].at = 0
            /\ WorkersOn(t) = {})
  /\ [][ Restart =>
           \A t \in DOMAIN tlog :
             (tlog[t].outcome = "exhausted" /\ Unwritten(t)) => tasks[t] \in Range(tasks') ]_vars

\* run() has returned with a task that exhausted its retries: the state the
\* next run starts from.
C6_Witness ==
  /\ mainpc = "returned"
  /\ \E t \in DOMAIN tlog : tlog[t].outcome = "exhausted" /\ tlog[t].status = "finished"

\* C7 as stated. A request that ends in a network failure or timeout while the
\* retry budget is not exhausted is followed by a backoff and a retry.
C7_NetworkFailureRetried ==
  [][ \A w \in Workers :
        ( /\ wpc[w] = "request"
          /\ retries[w] < max_retries
          /\ wpc'[w] # wpc[w]
          /\ mainpc' = mainpc
          /\ tlog'[wtask[w]].last = "neterr" )
        => wpc'[w] = "backoff" ]_vars

\* C8. Malformed body: a task whose 2xx body did not parse has finished without a
\* row and without a further request in this run, and the next run schedules it
\* again (unless another input row of the same postal code got a row).
C8_MalformedBodyIsDropped ==
  /\ [](\A t \in DOMAIN tlog :
          tlog[t].last = "malformed" =>
            /\ tlog[t].status = "finished"
            /\ tlog[t].outcome = "malformed"
            /\ tlog[t].at = 0
            /\ WorkersOn(t) = {}
            /\ (UniqueInput => AppendedFor(Details(t).ID) = {}))
  /\ [][ Restart =>
           \A t \in DOMAIN tlog :
             (tlog[t].last = "malformed" /\ Unwritten(t)) => tasks[t] \in Range(tasks') ]_vars

\* The process was stopped, or run() returned, after a task's body did not
\* parse: the state the next run starts from.
C8_Witness ==
  /\ mainpc \in {"returned", "interrupted"}
  /\ \E t \in DOMAIN tlog : tlog[t].last = "malformed" /\ tlog[t].status = "finished"

\* C9. Failure isolation and progress: under fair scheduling run() eventually
\* returns, and when it has returned every task of the run has finished (its
\* row written, or the task dropped or ended by its exception), whatever became
\* of the other tasks; a task's status never goes back.
C9_Progress ==
  /\ Running ~> (mainpc = "returned")
  /\ [](mainpc = "returned" => \A t \in DOMAIN tlog : tlog[t].status = "finished")
  /\ [][ \A t \in DOMAIN tlog : tlog[t].status = "finished" => tlog'[t] = tlog[t] ]_vars

\* run() has returned although one task raised; another task has its row in the ledger.
C9_Witness ==
  /\ mainpc = "returned"
  /\ \E t, u \in DOMAIN tlog :
       /\ tlog[t].outcome = "raised"
       /\ tlog[u].outcome = "written"

\* C10 as stated. The task list is exactly the input rows whose ID is not in the
\* ledger at startup, whatever their region.
C10_AllRegionsScheduled ==
  Running =>
    Range(tasks) = { i \in DOMAIN postal_code_data :
                       postal_code_data[i].ID \notin Range(ZipCodeColumn(LedgerAtStart)) }

\* C10 as amended. The task list is exactly the input rows whose ID is not in
\* the ledger at startup and whose RG_NAME is one of the names of state_list,
\* each once and in input order.
C10_TaskList ==
  Running =>
    /\ Range(tasks) = { i \in DOMAIN postal_code_data :
                          /\ \A j \in 1..startLen : ZipOf(ledger[j]) # postal_code_data[i].ID
                          /\ postal_code_data[i].RG_NAME \in state_list }
    /\ \A a, b \in DOMAIN tasks : a < b => tasks[a] < tasks[b]

\* A run with a task, and an input row left out for its region.
C10_Witness ==
  /\ Running
  /\ tasks # << >>
  /\ \E i \in DOMAIN postal_code_data :
       /\ postal_code_data[i].RG_NAME \notin state_list
       /\ \A j \in 1..startLen : ZipOf(ledger[j]) # postal_code_data[i].ID

\* s left-padded with zeros to n characters.
RECURSIVE ZeroPad(_, _)
ZeroPad(s, n) == IF Len(s) >= n THEN s ELSE ZeroPad(<< 0 >> \o s, n)

\* C11 as stated. The postal code sent for a task is its ID's digits
\* left-padded with zeros to exactly 5 characters (a 5-digit code unchanged).
C11_PaddedToFive ==
  \A t \in DOMAIN tlog :
    \A p \in requested :
      /\ p = ZeroPad(Str(Details(t).ID), 5)
      /\ Len(Str(Details(t).ID)) <= 5 => Len(p) = 5

\* What the code does: a 4-digit code gets one zero, every other code is sent
\* as its own digits; the request of a code of 1 to 3 digits has fewer than 5.
C11_OnlyFourDigitsPadded ==
  \A t \in DOMAIN tlog :
    \A p \in requested :
      /\ Len(Str(Details(t).ID)) = 4 => p = << 0 >> \o Str(Details(t).ID)
      /\ Len(Str(Details(t).ID)) # 4 => p = Str(Details(t).ID)

\* The request of a 3-digit postal code has been made.
C11_ShortCodeSent ==
  \E p \in requested : Len(p) = 3

(* ------------------- rows and payloads (C12 to C16) -------------------- *)

\* Worker w holds the row transform_data returned for its payload.
Produced(w) == wpc[w] \in {"acquire", "open", "writerow", "cooldown"}

\* The payload of worker w has data.modalityOptions; the dict under it.
HasOptions(w) ==
  /\ ~data[w].isNone
  /\ "data" \in data[w].body.keys
  /\ "modalityOptions" \in data[w].body.data.keys

Options(w) == data[w].body.data.modalityOptions

\* DELIVERY / PICKUP is present and truthy in the payload of worker w.
DeliveryOn(w) == "DELIVERY" \in Options(w).keys /\ Truthy(Options(w).DELIVERY)

PickupOn(w) == "PICKUP" \in Options(w).keys /\ Truthy(Options(w).PICKUP)

\* The location ids the payload lists for each mode.
DeliveryIds(w) ==
  IF DeliveryOn(w) /\ "fulfillment" \in Options(w).DELIVERY.keys
  THEN Options(w).DELIVERY.fulfillment ELSE << >>

PickupIds(w) ==
  IF "storeDetails" \in Options(w).keys
  THEN [ i \in DOMAIN Options(w).storeDetails |-> Options(w).storeDetails[i].locationId ]
  ELSE << >>

\* The store-list rows whose number, hyphens stripped, is id: id resolves when
\* there is one, to the chain of the first.
RowsOf(id) == { i \in DOMAIN store_data : StripHyphens(store_data[i].StoreNumber) = id }

Resolves(id) == RowsOf(id) # {}

BrandOf(id) == store_data[CHOOSE i \in RowsOf(id) : \A j \in RowsOf(id) : i <= j].ChainName

\* The brands the ids of a list resolve to.
ResolvedBrands(ids) == { BrandOf(ids[i]) : i \in { j \in DOMAIN ids : Resolves(ids[j]) } }

\* Where a brand first occurs among the ids of a list.
FirstAt(ids, brand) ==
  CHOOSE i \in DOMAIN ids :
    /\ Resolves(ids[i]) /\ BrandOf(ids[i]) = brand
    /\ \A j \in DOMAIN ids : (Resolves(ids[j]) /\ BrandOf(ids[j]) = brand) => i <= j

\* C12 as stated. In every row transform_data produces, Delivery is "Yes" iff
\* DeliveryGrocery and DeliveryAll are non-empty, and Pickup is "Yes" iff
\* PickupGrocery and PickupAll are non-empty.
C12_FlagIffBrands ==
  \A w \in Workers :
    Produced(w) =>
      /\ rowbuf[w].Delivery = "Yes" <=>
           (rowbuf[w].DeliveryGrocery # << >> /\ rowbuf[w].DeliveryAll # << >>)
      /\ rowbuf[w].Pickup = "Yes" <=>
           (rowbuf[w].PickupGrocery # << >> /\ rowbuf[w].PickupAll # << >>)

\* C12 as amended. In every row transform_data produces, a mode's brand lists
\* are non-empty only if its flag is "Yes" (flag "No": both lists empty), the
\* two lists of a mode are equal and the Restaurants lists empty; a flag "Yes"
\* comes with empty lists exactly when none of the locations listed for the
\* mode resolves in the store list.
C12_BrandsOnlyWithFlag ==
  \A w \in Workers :
    Produced(w) =>
      LET row == rowbuf[w]
      IN  /\ row.Delivery \in {"Yes", "No"} /\ row.Pickup \in {"Yes", "No"}
          /\ row.DeliveryAll = row.DeliveryGrocery
          /\ row.PickupAll = row.PickupGrocery
          /\ row.DeliveryRestaurants = << >> /\ row.PickupRestaurants = << >>
          /\ row.Delivery = "No" => row.DeliveryGrocery = << >>
          /\ row.Pickup = "No" => row.PickupGrocery = << >>
          /\ row.Delivery = "Yes" =>
               (row.DeliveryGrocery = << >> <=> ResolvedBrands(DeliveryIds(w)) = {})
          /\ row.Pickup = "Yes" =>
               (row.PickupGrocery = << >> <=> ResolvedBrands(PickupIds(w)) = {})

\* A row with Delivery "Yes" and a delivery brand, and Pickup "Yes" without any brand.
C12_Witness ==
  \E w \in Workers :
    /\ Produced(w)
    /\ rowbuf[w].Delivery = "Yes" /\ rowbuf[w].DeliveryGrocery # << >>
    /\ rowbuf[w].Pickup = "Yes" /\ rowbuf[w].PickupGrocery = << >>

\* C13. Delivery absent: for a payload whose modalityOptions has DELIVERY absent
\* or falsy, the row produced has Delivery "No" and DeliveryGrocery and
\* DeliveryAll empty, whatever storeDetails and PICKUP hold; the row appended is
\* that row.
C13_NoDelivery ==
  \A w \in Workers :
    (Produced(w) /\ HasOptions(w) /\ ~DeliveryOn(w)) =>
      /\ rowbuf[w].Delivery = "No"
      /\ rowbuf[w].DeliveryGrocery = << >>
      /\ rowbuf[w].DeliveryAll = << >>
      /\ wpc[w] = "cooldown" => ledger[Len(ledger)] = CsvRow(rowbuf[w])

\* The row of a payload whose DELIVERY is an empty dict, with PICKUP true and a
\* store that resolves, has been appended.
C13_Witness ==
  \E w \in Workers :
    /\ wpc[w] = "cooldown"
    /\ HasOptions(w)
    /\ "DELIVERY" \in Options(w).keys /\ Options(w).DELIVERY = JObject({}, << >>)
    /\ rowbuf[w].PickupGrocery # << >>
    /\ ledger # << >>

\* C14. Pickup brand uniqueness: for a payload with PICKUP truthy and a
\* storeDetails location that resolves, the row produced lists every resolved
\* brand exactly once in PickupGrocery and in PickupAll, in the order of the
\* brands' first occurrences in storeDetails.
C14_PickupBrandsOnce ==
  \A w \in Workers :
    (Produced(w) /\ HasOptions(w) /\ PickupOn(w) /\ ResolvedBrands(PickupIds(w)) # {}) =>
      LET list == rowbuf[w].PickupGrocery
          ids == PickupIds(w)
      IN  /\ rowbuf[w].PickupAll = list
          /\ Range(list) = ResolvedBrands(ids)
          /\ \A a, b \in DOMAIN list : list[a] = list[b] => a = b
          /\ \A a, b \in DOMAIN list : a < b => FirstAt(ids, list[a]) < FirstAt(ids, list[b])

\* A row whose payload names two different locations of one brand: the brand is
\* listed once.
C14_Witness ==
  \E w \in Workers :
    /\ Produced(w) /\ HasOptions(w) /\ PickupOn(w)
    /\ \E i, j \in DOMAIN PickupIds(w) :
         /\ i # j
         /\ PickupIds(w)[i] # PickupIds(w)[j]
         /\ Resolves(PickupIds(w)[i]) /\ Resolves(PickupIds(w)[j])
         /\ BrandOf(PickupIds(w)[i]) = BrandOf(PickupIds(w)[j])
    /\ Len(rowbuf[w].PickupGrocery) = 1

\* A location the payload of worker w lists for a mode that is on does not
\* resolve in the store list.
HasUnresolvable(w) ==
  \/ DeliveryOn(w) /\ \E i \in DOMAIN DeliveryIds(w) : ~Resolves(DeliveryIds(w)[i])
  \/ PickupOn(w) /\ \E i \in DOMAIN PickupIds(w) : ~Resolves(PickupIds(w)[i])

\* The payload's shape makes get_store_brands raise: a truthy DELIVERY that is
\* no dict (TypeError), a storeDetails entry without locationId (KeyError).
ShapeRaises(w) ==
  \/ DeliveryOn(w) /\ Options(w).DELIVERY.t # "object"
  \/ /\ PickupOn(w)
     /\ "storeDetails" \in Options(w).keys
     /\ \E i \in DOMAIN Options(w).storeDetails :
          "locationId" \notin Options(w).storeDetails[i].keys

\* C15. Unresolvable brand id: when a location the payload lists is not in the
\* store list, transform_data does not raise for it and the task goes on to
\* write_to_file; the row lists exactly the brands of the locations that do
\* resolve; the row appended is that row.
C15_UnresolvableIdOmitted ==
  /\ [][ \A w \in Workers :
           (wpc[w] = "transform" /\ HasOptions(w) /\ HasUnresolvable(w) /\ ~ShapeRaises(w))
             => wpc'[w] \in {"transform", "acquire"} ]_vars
  /\ [](\A w \in Workers :
          (Produced(w) /\ HasOptions(w) /\ HasUnresolvable(w)) =>
            /\ DeliveryOn(w) => Range(rowbuf[w].DeliveryGrocery) = ResolvedBrands(DeliveryIds(w))
            /\ PickupOn(w) => Range(rowbuf[w].PickupGrocery) = ResolvedBrands(PickupIds(w))
            /\ tlog[wtask[w]].outcome = "written" =>
                 ledger[tlog[wtask[w]].at] = CsvRow(rowbuf[w]))

\* The row of a payload whose first pickup location is unknown and whose second
\* resolves has been appended, with the second's brand.
C15_Witness ==
  \E w \in Workers :
    /\ wpc[w] = "cooldown" /\ HasOptions(w) /\ PickupOn(w)
    /\ Len(PickupIds(w)) = 2
    /\ ~Resolves(PickupIds(w)[1]) /\ Resolves(PickupIds(w)[2])
    /\ rowbuf[w].PickupGrocery = << BrandOf(PickupIds(w)[2]) >>
    /\ ledger = << CsvRow(rowbuf[w]) >>

\* The characters of a brand or banner name.
CharsOf(name) ==
  CASE name = "Kroger" -> {"K", "r", "o", "g", "e"}
    [] name = "Ralphs" -> {"R", "a", "l", "p", "h", "s"}
    [] OTHER -> {}

\* The catalog of known brand names of the fallback matching.
Catalog == << "Kroger", "Ralphs" >>

\* Jaccard similarity over character sets, |intersection| / |union|, as the
\* fraction << numerator, denominator >>.
similarity(s1, s2) ==
  << Cardinality(CharsOf(s1) \cap CharsOf(s2)), Cardinality(CharsOf(s1) \cup CharsOf(s2)) >>

\* Fraction p is greater than fraction q.
Greater(p, q) == p[1] * q[2] > q[1] * p[2]

\* The catalog entries a banner matches best: a score above zero, strictly
\* above every earlier entry's and not below any later one's.
BestMatches(banner) ==
  { i \in DOMAIN Catalog :
      /\ similarity(banner, Catalog[i])[1] > 0
      /\ \A j \in DOMAIN Catalog :
           /\ j < i => Greater(similarity(banner, Catalog[i]), similarity(banner, Catalog[j]))
           /\ j > i => ~Greater(similarity(banner, Catalog[j]), similarity(banner, Catalog[i])) }

C17_SentHeadersAreOwn ==
  \A w \in Workers :
    (wpc[w] = "request" /\ sent[w] # "none") => sent[w] = ua[w]

\* Two workers are between drawing their agent and posting, with different agents.
C17_TwoWorkersBetween ==
  \E w, v \in Workers :
    /\ wpc[w] = "post" /\ wpc[v] = "post"
    /\ ua[w] # ua[v]

\* C18 as stated. The store list is read-only during the run: no step taken
\* while run() is executing changes it.
C18_StoreListReadOnly ==
  [][ Running => store_data' = store_data ]_vars

\* A worker is at transform_data while the store list still has a hyphen in a
\* store number: its lookup is about to rewrite the column.
C18_LookupPending ==
  \E w \in Workers :
    /\ wpc[w] = "transform"
    /\ data[w].body = PickupBody
    /\ store_data # NormalizeStoreData(store_data)

\* C19 as stated. Every task whose request was answered 2xx with a body that
\* parses (an empty object included) has its body transformed and its row
\* appended: it finishes written.
C19_EverySuccessYieldsRow ==
  \A t \in DOMAIN tlog :
    (tlog[t].status = "finished" /\ tlog[t].last = "ok") => tlog[t].outcome = "written"

\* A task answered 2xx with the body {} has finished without a row.
C19_EmptyObjectDropped ==
  \E t \in DOMAIN tlog :
    /\ tlog[t].status = "finished" /\ tlog[t].last = "ok"
    /\ tlog[t].outcome = "falsy"
    /\ AppendedFor(Details(t).ID) = {}

\* C20 as stated. After startup the output file exists (it was created, header
\* only, before filter_postal_codes read it, when it was absent); and a file
\* that exists is never removed or cut: its rows stay and rows are only appended.
C20_LedgerInitialized ==
  /\ [](mainpc # "init" => file_exists)
  /\ [][ file_exists =>
           /\ file_exists'
           /\ Len(ledger') >= Len(ledger)
           /\ SubSeq(ledger', 1, Len(ledger)) = ledger ]_vars

\* The process started with the directory 'output' but no output file in it,
\* and ended in filter_postal_codes.
C20_StartWithoutFile ==
  mainpc = "crashed" /\ output_dir /\ ~file_exists

\* The step kills the process: its threads take no further task.
Killed == mainpc' = "interrupted"

\* The row worker w's task appended stands in the ledger and the lock is not w's.
WriteCompleted(w) ==
  /\ lock # w
  /\ tlog[wtask[w]].outcome = "written"
  /\ tlog[wtask[w]].at \in (startLen + 1)..Len(ledger)
  /\ ledger[tlog[wtask[w]].at] = CsvRow(rowbuf[w])

\* C21. Post-success cooldown ordering: a worker that has appended a row (normal
\* or default "No/No" record) sleeps the cooldown before it takes its next task:
\* the append leads to the cooldown and nowhere else, the cooldown ends in the
\* idle worker, and a task is taken by an idle worker only. The cooldown starts
\* only after the write has completed and the lock is released: it is entered by
\* the step that ends the write, and all through it the row is in the ledger and
\* the lock is not the worker's. A worker whose task is dropped without a row
\* becomes idle, free for its next task, without having been in the cooldown.
C21_CooldownOrdering ==
  /\ [](\A w \in Workers : wpc[w] = "cooldown" => WriteCompleted(w))
  /\ [][ \A w \in Workers :
           /\ (wpc[w] = "writerow" /\ ledger' # ledger) =>
                (wpc'[w] = "cooldown" /\ wtask'[w] = wtask[w])
           /\ (wpc[w] # "cooldown" /\ wpc'[w] = "cooldown") =>
                /\ wpc[w] = "writerow"
                /\ lock = w /\ lock' # w
                /\ ledger' = Append(ledger, CsvRow(rowbuf[w]))
           /\ (wpc[w] = "cooldown" /\ ~Killed) =>
                /\ wpc'[w] \in {"cooldown", "idle"}
                /\ wpc'[w] = "idle" =>
                     /\ tlog'[wtask[w]].status = "finished"
                     /\ tlog'[wtask[w]].outcome = "written"
           /\ (wtask'[w] # 0 /\ wtask'[w] # wtask[w]) =>
                (wpc[w] = "idle" /\ wpc'[w] = "request")
           /\ (wtask[w] # 0 /\ wtask'[w] = 0 /\ ~Killed
                 /\ tlog'[wtask[w]].outcome # "written") =>
                /\ wpc[w] # "cooldown"
                /\ wpc'[w] = "idle"
                /\ ledger' = ledger ]_vars

\* The first task of a run is taken by worker 1. Worker 1 appended its row (the
\* default record of a client error among the cases), slept the cooldown and
\* has now taken the second task.
C21_Witness ==
  /\ Running
  /\ Len(tasks) >= 2
  /\ tlog[1].status = "finished" /\ tlog[1].outcome = "written"
  /\ ledger[tlog[1].at].Delivery = "No" /\ ledger[tlog[1].at].Pickup = "No"
  /\ wtask[1] = 2
  /\ wpc[1] = "request"

\* C22. Rows are keyed as the dedup check expects: every row appended during a
\* run is the row of a task scheduled in that run, and its ZipCode cell is that
\* task's input ID as the input table has it (its plain digits, not the
\* zero-padded form the request carries); so the task list of the next run holds
\* no postal code a task has written, those of fewer than 5 digits included.
C22_RowsKeyedByInputID ==
  /\ [](\A j \in (startLen + 1)..Len(ledger) :
          \E t \in DOMAIN tlog :
            /\ tlog[t].outcome = "written"
            /\ tlog[t].at = j
            /\ ledger[j].ZipCode = Str(Details(t).ID))
  /\ [][ Restart =>
           \A t \in DOMAIN tlog :
             tlog[t].outcome = "written" =>
               \A u \in DOMAIN tasks' :
                 postal_code_data[tasks'[u]].ID # Details(t).ID ]_vars

\* A later run found the row of a 4-digit postal code, which was requested
\* zero-padded: the row kept the code off the task list, which has another task.
C22_Witness ==
  /\ Running
  /\ prev.started
  /\ tasks # << >>
  /\ \E i \in 1..startLen :
       /\ Len(ledger[i].ZipCode) = 4
       /\ postal_code_formatter(ZipOf(ledger[i])) # ledger[i].ZipCode
       /\ \E r \in DOMAIN postal_code_data :
            /\ postal_code_data[r].ID = ZipOf(ledger[i])
            /\ postal_code_data[r].RG_NAME \in state_list
            /\ r \notin Range(tasks)
====
